---- MODULE Spec2Model ----
(***************************************************************************)
(* GridData (src/grid/griddata_bkh.py): the CSV loader, the daily          *)
(* aggregate, the continuous time axis, the two model loaders and the      *)
(* plotters, as a state machine over the object's attributes.              *)
(*                                                                         *)
(* Numbers that numpy holds as floats are kept exact, as pairs <<n, d>>    *)
(* standing for n/d.  A timestamp is the number of days since 1 January    *)
(* of EpochYear; a SETTLEMENT_DATE string 'dd-Mon-yyyy' is the triple      *)
(* <<day, month, year>> of its three fields.                               *)
(***************************************************************************)
EXTENDS Integers, Sequences, FiniteSets, TLC

VARIABLES
    grid_file,   \* the rows of the CSV file given to the constructor
    self,        \* the object's attributes: attribute name -> value
    last         \* the last call made on the object, and how it ended

vars == <<grid_file, self, last>>

----------------------------------------------------------------------------
\* Bounds and program constants

\* the largest number of rows of an arbitrary CSV file
MaxRows == 3

\* the year the plotted time axis starts from
EpochYear == 2015

\* days per year used for the unit conversion of X
DaysPerYear == 365

\* MW per GW
MWPerGW == 1000

\* the row index for lockdown
COVID_CUTOFF == 1881

\* the number of points of the prediction grid
GridPoints == 1000

\* load_model's default forecast limit, load_model_output's fixed one
DefaultForecastLimit == 7

----------------------------------------------------------------------------
\* Exact arithmetic on n/d pairs

Rat(n, d) == <<n, d>>

RatLess(a, b) == a[1] * b[2] < b[1] * a[2]

RatAdd(a, b) == <<a[1] * b[2] + b[1] * a[2], a[2] * b[2]>>

RatSub(a, b) == <<a[1] * b[2] - b[1] * a[2], a[2] * b[2]>>

RatDiv(a, b) == <<a[1] * b[2], a[2] * b[1]>>

\* array / scalar, elementwise
DivideBy(arr, k) == [i \in 1..Len(arr) |-> <<arr[i][1], arr[i][2] * k>>]

\* a[k:]
SliceFrom(a, k) == IF k >= Len(a) THEN <<>> ELSE SubSeq(a, k + 1, Len(a))

\* a[:k]
SliceTo(a, k) == IF k >= Len(a) THEN a ELSE SubSeq(a, 1, k)

\* the members of a set of integers, ascending
Ascending(S) ==
    IF S = {} THEN <<>>
    ELSE LET lo == CHOOSE x \in S : \A y \in S : x <= y
             hi == CHOOSE x \in S : \A y \in S : y <= x
         IN  SelectSeq([i \in 1..(hi - lo + 1) |-> lo + i - 1],
                       LAMBDA v : v \in S)

RECURSIVE SumSeq(_)
SumSeq(s) == IF s = <<>> THEN 0 ELSE Head(s) + SumSeq(Tail(s))

MaxOf(s) == CHOOSE x \in {s[i] : i \in 1..Len(s)} :
                \A j \in 1..Len(s) : s[j] <= x

----------------------------------------------------------------------------
\* The calendar behind pd.to_datetime, .dt.year and .dt.dayofyear

IsLeap(y) == (y % 4 = 0 /\ y % 100 # 0) \/ y % 400 = 0

MonthLen(m, y) ==
    IF m = 2 THEN (IF IsLeap(y) THEN 29 ELSE 28)
    ELSE IF m \in {4, 6, 9, 11} THEN 30 ELSE 31

DaysBeforeYear(y) ==
    (y - EpochYear) * 365 + Cardinality({z \in EpochYear..(y - 1) : IsLeap(z)})

RECURSIVE DaysBeforeMonth(_, _)
DaysBeforeMonth(m, y) ==
    IF m = 1 THEN 0 ELSE DaysBeforeMonth(m - 1, y) + MonthLen(m - 1, y)

\* pd.to_datetime(..., format='%d-%b-%Y') of one SETTLEMENT_DATE
to_datetime(s) == DaysBeforeYear(s[3]) + DaysBeforeMonth(s[2], s[3]) + s[1] - 1

\* .dt.year
YearOf(t) ==
    CHOOSE y \in EpochYear..(EpochYear + t \div 365) :
        DaysBeforeYear(y) <= t /\ t < DaysBeforeYear(y + 1)

\* .dt.dayofyear
DayOfYear(t) == t - DaysBeforeYear(YearOf(t)) + 1

\* the 'dd-Mon-yyyy' fields of the day t days after 1 January of EpochYear
SettlementDate(t) ==
    LET y   == YearOf(t)
        doy == DayOfYear(t)
        m   == CHOOSE k \in 1..12 :
                   DaysBeforeMonth(k, y) < doy
                   /\ doy <= DaysBeforeMonth(k, y) + MonthLen(k, y)
    IN  <<doy - DaysBeforeMonth(m, y), m, y>>

----------------------------------------------------------------------------
\* The CSV files

\* SETTLEMENT_DATE values of the arbitrary files: both ends of an ordinary
\* and of a leap year, and the start of the year after
SampleDates ==
    { <<1, 1, 2015>>, <<30, 12, 2015>>, <<31, 12, 2015>>,
      <<29, 2, 2016>>, <<31, 12, 2016>>, <<1, 1, 2017>> }

\* ND values (MW) of the arbitrary files
SampleND == {30000, 31000}

CsvRow(d, nd) == [SETTLEMENT_DATE |-> d, ND |-> nd]

RECURSIVE SeqsUpTo(_, _)
SeqsUpTo(S, n) ==
    IF n = 0 THEN {<<>>}
    ELSE LET shorter == SeqsUpTo(S, n - 1)
         IN  shorter \cup {Append(s, x) : s \in shorter, x \in S}

\* every file of at most MaxRows rows, in any order, dates repeated or not
ArbitraryFiles == SeqsUpTo({CsvRow(d, nd) : d \in SampleDates, nd \in SampleND}, MaxRows)

\* one reading a day for n consecutive days from 1 January of EpochYear
DailyFile(n) == [i \in 1..n |-> CsvRow(SettlementDate(i - 1), 30000 + (i % 7) * 100)]

----------------------------------------------------------------------------
\* GridData.__init__

\* self.grid: the file's rows with the parsed DATE column
ReadGrid(file) ==
    [i \in 1..Len(file) |->
        [SETTLEMENT_DATE |-> file[i].SETTLEMENT_DATE,
         ND   |-> file[i].ND,
         DATE |-> to_datetime(file[i].SETTLEMENT_DATE)]]

\* a grouping that keeps the file's rows as they come
GroupKeysInFileOrder(grid) == [i \in 1..Len(grid) |-> grid[i].DATE]

\* groupby('DATE'): the distinct keys, sorted
GroupKeys(grid) == Ascending({grid[i].DATE : i \in 1..Len(grid)})

\* np.mean of the ND values of one group
MeanND(grid, date) ==
    LET rows == SelectSeq(grid, LAMBDA r : r.DATE = date)
    IN  Rat(SumSeq([i \in 1..Len(rows) |-> rows[i].ND]), Len(rows))

\* self.grid_average: one row per key, with DEMAND_AVERAGE, YEAR and DOY
Aggregate(grid) ==
    LET keys == GroupKeys(grid)
    IN  [i \in 1..Len(keys) |->
            [DATE |-> keys[i],
             DEMAND_AVERAGE |-> MeanND(grid, keys[i]),
             YEAR |-> YearOf(keys[i]),
             DOY  |-> DayOfYear(keys[i])]]

\* np.unique(self.grid_average.YEAR.values)
UniqueYears(avg) == Ascending({avg[i].YEAR : i \in 1..Len(avg)})

\* self.grid_average.DOY[self.grid_average.YEAR.values == year]
DoyOfYear(avg, year) ==
    LET rows == SelectSeq(avg, LAMBDA r : r.YEAR = year)
    IN  [i \in 1..Len(rows) |-> rows[i].DOY]

\* the loop with OFFSET grown by the number of rows of the year
RECURSIVE PseudoDaysByCount(_, _, _, _)
PseudoDaysByCount(avg, years, OFFSET, X) ==
    IF years = <<>> THEN X
    ELSE LET doy == DoyOfYear(avg, Head(years))
         IN  PseudoDaysByCount(avg, Tail(years), OFFSET + Len(doy),
                               X \o [i \in 1..Len(doy) |-> OFFSET + doy[i]])

\* the loop over the years: X grows by the year's offset days-of-year, OFFSET
\* by the year's largest day-of-year
RECURSIVE PseudoDays(_, _, _, _)
PseudoDays(avg, years, OFFSET, X) ==
    IF years = <<>> THEN X
    ELSE LET doy == DoyOfYear(avg, Head(years))
         IN  PseudoDays(avg, Tail(years), OFFSET + MaxOf(doy),
                        X \o [i \in 1..Len(doy) |-> OFFSET + doy[i]])

\* the pseudo-days over the length of a leap year
TimeAxisLeap(avg) ==
    LET X == PseudoDays(avg, UniqueYears(avg), 0, <<>>)
    IN  DivideBy([i \in 1..Len(X) |-> Rat(X[i], 1)], DaysPerYear + 1)

\* self.X: the pseudo-days in years
TimeAxis(avg) ==
    LET X == PseudoDays(avg, UniqueYears(avg), 0, <<>>)
    IN  DivideBy([i \in 1..Len(X) |-> Rat(X[i], 1)], DaysPerYear)

\* self.Y: the daily means in GW
DemandAxis(avg) ==
    DivideBy([i \in 1..Len(avg) |-> avg[i].DEMAND_AVERAGE], MWPerGW)

NoCall == [op |-> "none"]

Construct ==
    /\ DOMAIN self = {}
    /\ LET grid == ReadGrid(grid_file)
           avg  == Aggregate(grid)
       IN  self' = [grid |-> grid, grid_average |-> avg,
                    X |-> TimeAxis(avg), Y |-> DemandAxis(avg)]
    /\ last' = [op |-> "__init__", outcome |-> "returned"]
    /\ UNCHANGED grid_file

Constructed == DOMAIN self # {}

Has(obj, names) == names \subseteq DOMAIN obj

SetAttr(obj, name, value) == (name :> value) @@ obj

----------------------------------------------------------------------------
\* get_data, get_data_average

get_data ==
    /\ Constructed
    /\ last' = [op |-> "get_data", outcome |-> "returned", result |-> self.grid]
    /\ UNCHANGED <<grid_file, self>>

get_data_average ==
    /\ Constructed
    /\ last' = [op |-> "get_data_average", outcome |-> "returned",
                result |-> self.grid_average]
    /\ UNCHANGED <<grid_file, self>>

----------------------------------------------------------------------------
\* plot_demand_bkh

colors == <<"darkgreen", "darkkhaki", "darkmagenta", "darksalmon", "darkred", "gold">>

\* the color argument (its default)
ColorArgs == {"black"}

\* the line of one year: the i-th (from 0) of np.unique's years
YearLine(avg, year, i) ==
    LET rows == SelectSeq(avg, LAMBDA r : r.YEAR = year)
    IN  [glyph |-> "line",
         x |-> [k \in 1..Len(rows) |-> rows[k].DOY],
         y |-> [k \in 1..Len(rows) |-> rows[k].DEMAND_AVERAGE],
         alpha |-> Rat(4 + i, 10),
         legend_label |-> year,
         color |-> colors[i + 1]]

\* colors[i] of a Python list
ColorInRange(i) == i < Len(colors)

\* the loop over the years; it stops at the first year with no color
CollapsedLines(avg) ==
    LET years == UniqueYears(avg)
        drawn == IF \A i \in 0..(Len(years) - 1) : ColorInRange(i)
                 THEN Len(years)
                 ELSE CHOOSE n \in 0..(Len(years) - 1) :
                         /\ ~ColorInRange(n)
                         /\ \A i \in 0..(n - 1) : ColorInRange(i)
    IN  [outcome |-> IF drawn = Len(years) THEN "returned" ELSE "IndexError",
         lines   |-> [i \in 1..drawn |-> YearLine(avg, years[i], i - 1)]]

plot_demand_bkh ==
    /\ Constructed
    /\ \E collapse \in BOOLEAN, color \in ColorArgs :
          LET avg == self.grid_average
              c   == CollapsedLines(avg)
              whole == <<[glyph |-> "line",
                          x |-> [k \in 1..Len(avg) |-> avg[k].DATE],
                          y |-> [k \in 1..Len(avg) |-> avg[k].DEMAND_AVERAGE],
                          color |-> color]>>
          IN  last' = [op |-> "plot_demand_bkh", collapse |-> collapse,
                       outcome |-> IF collapse THEN c.outcome ELSE "returned",
                       shown   |-> IF collapse THEN c.outcome = "returned" ELSE TRUE,
                       glyphs  |-> IF collapse THEN c.lines ELSE whole,
                       xaxis   |-> IF collapse THEN "Day of the Year" ELSE "Year",
                       yaxis   |-> "Demand (MW)"]
    /\ UNCHANGED <<grid_file, self>>

----------------------------------------------------------------------------
\* The pickled artifacts

\* the fitted model of the pickle: predict(X) -> (mean, confidence), one
\* value per point
Models == { [level |-> 30, spread |-> 1] }

Predict(model, XS) ==
    [mean |-> [i \in 1..Len(XS) |->
                  <<model.level * XS[i][2] + XS[i][1], XS[i][2]>>],
     conf |-> [i \in 1..Len(XS) |-> Rat(model.spread, 10)]]

\* the grid without its end point
LinspaceOpen(limit, n) == [i \in 1..n |-> Rat((i - 1) * limit, n)]

\* np.linspace(0, limit, n)
Linspace(limit, n) == [i \in 1..n |-> Rat((i - 1) * limit, n - 1)]

\* a[self.COVID_CUTOFF:]
PostCutoff(a, cutoff) == SliceFrom(a, cutoff)

ForecastLimits == {5, DefaultForecastLimit}

\* a path with no file behind it
NoFile == [missing |-> TRUE]

ModelFiles == Models \cup {NoFile}

\* the time and demand axes of the dataset a saved output was computed on
SavedAxes(n) ==
    LET avg == Aggregate(ReadGrid(DailyFile(n)))
    IN  [X |-> TimeAxis(avg), Y |-> DemandAxis(avg)]

\* the dictionary of outputs of a model, as pickled for load_model_output;
\* made_from notes what it was computed from and is read by no operation
SavedOutput(model, limit, axes) ==
    LET grid  == Linspace(limit, GridPoints)
        full  == Predict(model, grid)
        after == PostCutoff(axes.X, COVID_CUTOFF)
        covid == Predict(model, after)
    IN  [X_PREDICT |-> grid,
         Y_PREDICT_mean |-> full.mean,
         Y_PREDICT_conf |-> full.conf,
         X_COVID |-> after,
         Y_COVID |-> PostCutoff(axes.Y, COVID_CUTOFF),
         Y_COVID_PREDICT_mean |-> covid.mean,
         Y_COVID_PREDICT_conf |-> covid.conf,
         made_from |-> [model |-> model, limit |-> limit, rows |-> Len(axes.X)]]

\* the datasets the saved outputs were computed on: the 1883-day file and
\* the same file one day earlier
SavedRowCounts == {1882, 1883}

OutputFiles ==
    LET axes == {SavedAxes(n) : n \in SavedRowCounts}
    IN  { SavedOutput(m, limit, a) :
            m \in Models, limit \in ForecastLimits, a \in axes } \cup {NoFile}

IsMissing(file) == "missing" \in DOMAIN file

----------------------------------------------------------------------------
\* load_model

\* the attributes after the call, and how it ended
\* a return after the cutoff was set
WithoutGPyCutoffSet(obj) ==
    [self |-> ("COVID_CUTOFF" :> COVID_CUTOFF) @@ obj, outcome |-> "returned"]

\* except ModuleNotFoundError: return
WithoutGPy(obj) == [self |-> obj, outcome |-> "returned"]

LoadModel(obj, model_file, forecast_limit, gpy) ==
    IF ~gpy THEN WithoutGPy(obj)
    ELSE
    LET s1 == SetAttr(SetAttr(obj, "COVID_CUTOFF", COVID_CUTOFF),
                      "forecast_limit", forecast_limit)
    IN  IF IsMissing(model_file)
        THEN [self |-> s1, outcome |-> "FileNotFoundError"]
        ELSE
        LET grid  == Linspace(forecast_limit, GridPoints)
            full  == Predict(model_file, grid)
            xc    == PostCutoff(s1.X, s1.COVID_CUTOFF)
            yc    == PostCutoff(s1.Y, s1.COVID_CUTOFF)
            covid == Predict(model_file, xc)
        IN  [self |->
                [model |-> model_file,
                 X_PREDICT |-> grid,
                 Y_PREDICT_mean |-> full.mean,
                 Y_PREDICT_conf |-> full.conf,
                 X_COVID |-> xc,
                 Y_COVID |-> yc,
                 Y_COVID_PREDICT_mean |-> covid.mean,
                 Y_COVID_PREDICT_conf |-> covid.conf] @@ s1,
             outcome |-> "returned"]

load_model ==
    /\ Constructed
    /\ \E model_file \in ModelFiles, forecast_limit \in ForecastLimits, gpy \in BOOLEAN :
          LET r == LoadModel(self, model_file, forecast_limit, gpy)
          IN  /\ self' = r.self
              /\ last' = [op |-> "load_model", gpy |-> gpy, outcome |-> r.outcome]
    /\ UNCHANGED grid_file

----------------------------------------------------------------------------
\* load_model_output

\* the dictionary's attributes but the post-cutoff confidence
StoredOutputsNoConf(d) ==
    [output_dict |-> d,
     X_PREDICT |-> d.X_PREDICT,
     Y_PREDICT_mean |-> d.Y_PREDICT_mean,
     Y_PREDICT_conf |-> d.Y_PREDICT_conf,
     X_COVID |-> d.X_COVID,
     Y_COVID |-> d.Y_COVID,
     Y_COVID_PREDICT_mean |-> d.Y_COVID_PREDICT_mean]

\* the attributes set from the unpickled dictionary
StoredOutputs(d) ==
    [output_dict |-> d,
     X_PREDICT |-> d.X_PREDICT,
     Y_PREDICT_mean |-> d.Y_PREDICT_mean,
     Y_PREDICT_conf |-> d.Y_PREDICT_conf,
     X_COVID |-> d.X_COVID,
     Y_COVID |-> d.Y_COVID,
     Y_COVID_PREDICT_mean |-> d.Y_COVID_PREDICT_mean,
     Y_COVID_PREDICT_conf |-> d.Y_COVID_PREDICT_conf]

LoadModelOutput(obj, output_file) ==
    LET s1 == SetAttr(SetAttr(obj, "COVID_CUTOFF", COVID_CUTOFF),
                      "forecast_limit", DefaultForecastLimit)
    IN  IF IsMissing(output_file)
        THEN [self |-> s1, outcome |-> "FileNotFoundError"]
        ELSE
        [self |-> StoredOutputs(output_file) @@ s1, outcome |-> "returned"]

load_model_output ==
    /\ Constructed
    /\ \E output_file \in OutputFiles :
          LET r == LoadModelOutput(self, output_file)
          IN  /\ self' = r.self
              /\ last' = [op |-> "load_model_output", outcome |-> r.outcome]
    /\ UNCHANGED grid_file

----------------------------------------------------------------------------
\* plot_model_bkh

\* a + k on every element
Shift(a, k) == [i \in 1..Len(a) |-> RatAdd(a[i], Rat(k, 1))]

\* elementwise a op b of two flattened arrays
Minus(a, b) == [i \in 1..Len(a) |-> RatSub(a[i], b[i])]

Plus(a, b) == [i \in 1..Len(a) |-> RatAdd(a[i], b[i])]

Over(a, b) == [i \in 1..Len(a) |-> RatDiv(a[i], b[i])]

\* numpy refuses two flat arrays of different lengths, unless one has length one
Broadcasts(a, b) == Len(a) = Len(b) \/ Len(a) = 1 \/ Len(b) = 1

\* an empty chart shown where an attribute is missing
BlankChart == [outcome |-> "returned", shown |-> TRUE, glyphs |-> <<>>]

\* reading an attribute the object does not have: nothing is shown
MissingState == [outcome |-> "AttributeError", shown |-> FALSE, glyphs |-> <<>>]

ModelPlotReads ==
    {"X_PREDICT", "Y_PREDICT_mean", "Y_PREDICT_conf", "X", "Y", "COVID_CUTOFF"}

PlotModel(obj) ==
    IF ~Has(obj, ModelPlotReads)
    THEN MissingState
    ELSE IF ~Broadcasts(obj.Y_PREDICT_mean, obj.Y_PREDICT_conf)
    THEN [outcome |-> "ValueError", shown |-> FALSE, glyphs |-> <<>>]
    ELSE
    [outcome |-> "returned", shown |-> TRUE,
     glyphs |->
       << [glyph |-> "varea", legend_label |-> "Confidence",
           x  |-> Shift(obj.X_PREDICT, EpochYear),
           y1 |-> Minus(obj.Y_PREDICT_mean, obj.Y_PREDICT_conf),
           y2 |-> Plus(obj.Y_PREDICT_mean, obj.Y_PREDICT_conf)],
          [glyph |-> "line", legend_label |-> "Mean",
           x |-> Shift(obj.X_PREDICT, EpochYear),
           y |-> obj.Y_PREDICT_mean],
          [glyph |-> "x", legend_label |-> "Before Lockdown", color |-> "black",
           x |-> Shift(SliceTo(obj.X, obj.COVID_CUTOFF), EpochYear),
           y |-> SliceTo(obj.Y, obj.COVID_CUTOFF)],
          [glyph |-> "x", legend_label |-> "After Lockdown", color |-> "red",
           x |-> Shift(SliceFrom(obj.X, obj.COVID_CUTOFF), EpochYear),
           y |-> SliceFrom(obj.Y, obj.COVID_CUTOFF)] >>]

plot_model_bkh ==
    /\ Constructed
    /\ LET r == PlotModel(self)
       IN  last' = [op |-> "plot_model_bkh", outcome |-> r.outcome,
                    shown |-> r.shown, glyphs |-> r.glyphs]
    /\ UNCHANGED <<grid_file, self>>

----------------------------------------------------------------------------
\* plot_demand_discrepancy_bkh

DiscrepancyReads(plot_confidence) ==
    {"grid_average", "COVID_CUTOFF", "Y_COVID", "Y_COVID_PREDICT_mean"}
    \cup (IF plot_confidence THEN {"Y_COVID_PREDICT_conf"} ELSE {})

\* self.grid_average.DATE[self.COVID_CUTOFF:]
PostCutoffDates(obj) ==
    LET after == SliceFrom(obj.grid_average, obj.COVID_CUTOFF)
    IN  [i \in 1..Len(after) |-> after[i].DATE]

PlotDiscrepancy(obj, plot_confidence) ==
    IF ~Has(obj, DiscrepancyReads(plot_confidence))
    THEN MissingState
    ELSE IF ~Broadcasts(obj.Y_COVID, obj.Y_COVID_PREDICT_mean)
            \/ (plot_confidence
                /\ ~Broadcasts(obj.Y_COVID_PREDICT_mean, obj.Y_COVID_PREDICT_conf))
    THEN [outcome |-> "ValueError", shown |-> FALSE, glyphs |-> <<>>]
    ELSE
    LET dates == PostCutoffDates(obj)
        band  == << [glyph |-> "varea", legend_label |-> "Confidence",
                     x  |-> dates,
                     y1 |-> Over(obj.Y_COVID,
                                 Plus(obj.Y_COVID_PREDICT_mean, obj.Y_COVID_PREDICT_conf)),
                     y2 |-> Over(obj.Y_COVID,
                                 Minus(obj.Y_COVID_PREDICT_mean, obj.Y_COVID_PREDICT_conf))] >>
        lines == << [glyph |-> "line", line_dash |-> "dashed", color |-> "black",
                     x |-> dates,
                     y |-> [i \in 1..Len(dates) |-> Rat(1, 1)]],
                    [glyph |-> "line", legend_label |-> "Mean",
                     x |-> dates,
                     y |-> Over(obj.Y_COVID, obj.Y_COVID_PREDICT_mean)] >>
    IN  [outcome |-> "returned", shown |-> TRUE,
         glyphs |-> IF plot_confidence THEN band \o lines ELSE lines]

plot_demand_discrepancy_bkh ==
    /\ Constructed
    /\ \E plot_confidence \in BOOLEAN :
          LET r == PlotDiscrepancy(self, plot_confidence)
          IN  last' = [op |-> "plot_demand_discrepancy_bkh",
                       plot_confidence |-> plot_confidence,
                       outcome |-> r.outcome, shown |-> r.shown, glyphs |-> r.glyphs]
    /\ UNCHANGED <<grid_file, self>>

----------------------------------------------------------------------------
\* The aggregator on arbitrary files

InitAgg ==
    /\ grid_file \in ArbitraryFiles \cup {DailyFile(1883)}
    /\ self = <<>>
    /\ last = NoCall

NextAgg ==
    \/ Construct
    \/ get_data
    \/ get_data_average
    \/ plot_demand_bkh

SpecAgg == InitAgg /\ [][NextAgg]_vars

\* one file a year on 1 January, for n years
YearlyFile(n) == [i \in 1..n |-> CsvRow(<<1, 1, EpochYear + i - 1>>, 30000)]

\* The whole object on a few files: the daily readings of 1883 days (two
\* rows after the cutoff, six years) and short files of seven years and less
Init ==
    /\ grid_file \in {DailyFile(1883), YearlyFile(7), <<>>}
    /\ self = <<>>
    /\ last = NoCall

Next ==
    \/ Construct
    \/ get_data
    \/ get_data_average
    \/ plot_demand_bkh
    \/ load_model
    \/ load_model_output
    \/ plot_model_bkh
    \/ plot_demand_discrepancy_bkh

Spec == Init /\ [][Next]_vars

----------------------------------------------------------------------------
\* Properties

avg == self.grid_average

PredictionAttrs ==
    {"X_PREDICT", "Y_PREDICT_mean", "Y_PREDICT_conf", "X_COVID", "Y_COVID",
     "Y_COVID_PREDICT_mean", "Y_COVID_PREDICT_conf"}

AfterLoadModel ==
    last.op = "load_model" /\ last.gpy /\ last.outcome = "returned"

AfterLoadModelOutput ==
    last.op = "load_model_output" /\ last.outcome = "returned"

\* C1: the time axis X is strictly increasing over the whole aggregate: the
\* X of every row is strictly greater than the X of the row before it, across
\* year boundaries and for years with gaps or missing ends
C1_TimeAxisStrictlyIncreasing ==
    Constructed =>
        /\ Len(self.X) = Len(avg)
        /\ \A i \in 1..(Len(self.X) - 1) : RatLess(self.X[i], self.X[i + 1])

\* two consecutive rows straddle a year boundary, the earlier year ending
\* before its last day and the later one starting after its first
C1_Witness ==
    /\ Constructed
    /\ \E i \in 1..(Len(avg) - 1) :
          /\ avg[i].YEAR < avg[i + 1].YEAR
          /\ avg[i].DOY < 365
          /\ avg[i + 1].DOY > 1
          /\ RatLess(self.X[i], self.X[i + 1])

FileDates == {grid_file[i].SETTLEMENT_DATE : i \in 1..Len(grid_file)}

\* C7: the table get_data_average returns has one row per distinct calendar
\* date of the file, and its rows are in ascending order of date
C7_OneRowPerDateSorted ==
    last.op = "get_data_average" =>
        LET t == last.result
        IN  /\ Len(t) = Cardinality(FileDates)
            /\ \A i \in 1..(Len(t) - 1) : t[i].DATE < t[i + 1].DATE
            /\ {t[i].DATE : i \in 1..Len(t)} = {to_datetime(d) : d \in FileDates}

\* the table returned for a file that repeats a date and is not in date order
C7_Witness ==
    /\ last.op = "get_data_average"
    /\ Len(last.result) >= 2
    /\ Len(grid_file) > Len(last.result)
    /\ \E i \in 1..(Len(grid_file) - 1) :
          to_datetime(grid_file[i].SETTLEMENT_DATE)
              > to_datetime(grid_file[i + 1].SETTLEMENT_DATE)

\* the largest day-of-year seen in each year of the aggregate
YearMax(rows) ==
    [y \in {rows[i].YEAR : i \in 1..Len(rows)} |->
        CHOOSE d \in {rows[i].DOY : i \in {j \in 1..Len(rows) : rows[j].YEAR = y}} :
            \A k \in 1..Len(rows) : rows[k].YEAR = y => rows[k].DOY <= d]

\* the sum of the largest days-of-year of the years before `year`
EarlierYears(ymax, year) ==
    SumSeq([k \in 1..(year - EpochYear) |->
               IF (EpochYear + k - 1) \in DOMAIN ymax
               THEN ymax[EpochYear + k - 1] ELSE 0])

\* C8: row i's X is (its day-of-year + the largest days-of-year of all
\* earlier years) / 365, and row i's Y is its mean demand / 1000
C8_PseudoDayIndex ==
    Constructed =>
        LET ymax == YearMax(avg)
        IN  /\ Len(self.X) = Len(avg)
            /\ Len(self.Y) = Len(avg)
            /\ \A i \in 1..Len(avg) :
                  /\ self.X[i] = Rat(avg[i].DOY + EarlierYears(ymax, avg[i].YEAR), 365)
                  /\ self.Y[i] = Rat(avg[i].DEMAND_AVERAGE[1],
                                     avg[i].DEMAND_AVERAGE[2] * 1000)

\* day-of-year 366 of the second year after a first year whose largest
\* day-of-year is 365: pseudo-day 731
C8_Witness ==
    /\ Constructed
    /\ \E i \in 1..Len(avg) :
          /\ avg[i].DOY = 366
          /\ avg[i].YEAR = EpochYear + 1
          /\ self.X[i] = Rat(731, 365)
          /\ self.Y[i] = Rat(30000, 1000)

\* C3: a load_model call without the Gaussian-process library returns
\* normally and leaves every attribute of the object as it was
C3_MissingDependencyNoOp ==
    [][(last'.op = "load_model" /\ ~last'.gpy)
          => (self' = self /\ last'.outcome = "returned")]_vars

\* such a call on an object that an earlier load had populated
C3_Witness ==
    /\ last.op = "load_model"
    /\ ~last.gpy
    /\ last.outcome = "returned"
    /\ Has(self, PredictionAttrs)

PlotsWork(obj) ==
    /\ PlotModel(obj).outcome = "returned"
    /\ \A c \in BOOLEAN : PlotDiscrepancy(obj, c).outcome = "returned"

\* C2 as stated: after a load_model or load_model_output call that returns
\* normally, the seven prediction attributes are populated and the plots work
C2_Original ==
    (last.op \in {"load_model", "load_model_output"} /\ last.outcome = "returned")
        => (Has(self, PredictionAttrs) /\ PlotsWork(self))

\* C2: after load_model_output returns, or load_model returns with the
\* Gaussian-process library present, the seven prediction attributes are
\* populated and the prediction plots run to their chart
C2_EquivalentState ==
    (AfterLoadModel \/ AfterLoadModelOutput)
        => (Has(self, PredictionAttrs) /\ PlotsWork(self))

\* load_model alone, on a dataset with rows after the cutoff
C2_Witness ==
    /\ AfterLoadModel
    /\ "output_dict" \notin DOMAIN self
    /\ Len(self.X_COVID) > 0

\* the grid from 0 to the fixed forecast limit
SevenYearGrid ==
    [i \in 1..GridPoints |-> Rat((i - 1) * DefaultForecastLimit, GridPoints - 1)]

\* what load_model_output leaves from the saved outputs of `model` on this
\* object's data (outputs it takes to run to the fixed forecast limit)
FromSavedOutputs(model) ==
    LoadModelOutput(self, SavedOutput(model, DefaultForecastLimit,
                                      [X |-> self.X, Y |-> self.Y])).self

\* C6 as stated: for any forecast_limit, load_model leaves the X_PREDICT and
\* Y_PREDICT_mean that load_model_output leaves from the same model's saved
\* outputs, and in both variants X_PREDICT is the grid from 0 to the
\* object's forecast limit with the model's mean on it
C6_Original ==
    /\ AfterLoadModel =>
          /\ self.X_PREDICT = FromSavedOutputs(self.model).X_PREDICT
          /\ self.Y_PREDICT_mean = FromSavedOutputs(self.model).Y_PREDICT_mean
    /\ AfterLoadModelOutput =>
          /\ self.X_PREDICT = Linspace(self.forecast_limit, GridPoints)
          /\ self.Y_PREDICT_mean =
                Predict(self.output_dict.made_from.model, self.X_PREDICT).mean

\* C6: for forecast_limit 7, the limit load_model_output fixes, load_model
\* and load_model_output of the same model's 7-year outputs leave the same
\* X_PREDICT and Y_PREDICT_mean: the 1000-point grid from 0 to 7 and the
\* model's mean on it
C6_SameGridAtSevenYears ==
    /\ (AfterLoadModel /\ self.forecast_limit = DefaultForecastLimit) =>
          /\ self.X_PREDICT = SevenYearGrid
          /\ self.Y_PREDICT_mean = Predict(self.model, SevenYearGrid).mean
          /\ self.X_PREDICT = FromSavedOutputs(self.model).X_PREDICT
          /\ self.Y_PREDICT_mean = FromSavedOutputs(self.model).Y_PREDICT_mean
    /\ (AfterLoadModelOutput
        /\ self.output_dict.made_from.limit = DefaultForecastLimit) =>
          LET m == self.output_dict.made_from.model
              a == LoadModel(self, m, DefaultForecastLimit, TRUE).self
          IN  /\ self.X_PREDICT = SevenYearGrid
              /\ self.Y_PREDICT_mean = Predict(m, SevenYearGrid).mean
              /\ self.X_PREDICT = a.X_PREDICT
              /\ self.Y_PREDICT_mean = a.Y_PREDICT_mean

\* load_model_output alone, from outputs saved to the 7-year limit
C6_Witness ==
    /\ AfterLoadModelOutput
    /\ "model" \notin DOMAIN self
    /\ self.output_dict.made_from.limit = DefaultForecastLimit
    /\ Len(self.X_PREDICT) = GridPoints

\* the number of aggregate rows from the cutoff on
RowsAfterCutoff == IF Len(avg) > COVID_CUTOFF THEN Len(avg) - COVID_CUTOFF ELSE 0

\* C4: X_COVID and Y_COVID, once a load step has populated them, each have
\* as many entries as the aggregate has rows from index 1881 on (none when
\* it has no more than 1881 rows)
C4_PostCutoffLength ==
    Has(self, {"X_COVID", "Y_COVID"}) =>
        /\ Len(self.X_COVID) = RowsAfterCutoff
        /\ Len(self.Y_COVID) = RowsAfterCutoff

\* C9: every series of a shown discrepancy chart has one point per aggregate
\* row from index 1881 on: each glyph's date axis and its values have that
\* length
C9_DiscrepancyWindow ==
    (last.op = "plot_demand_discrepancy_bkh" /\ last.shown) =>
        \A k \in 1..Len(last.glyphs) :
            LET g == last.glyphs[k]
            IN  /\ Len(g.x) = RowsAfterCutoff
                /\ IF g.glyph = "varea"
                   THEN Len(g.y1) = RowsAfterCutoff /\ Len(g.y2) = RowsAfterCutoff
                   ELSE Len(g.y) = RowsAfterCutoff

\* C10: plot_demand_bkh with collapse=True returns with one line per
\* distinct year of the dataset, however many years there are
C10_LinePerYear ==
    (last.op = "plot_demand_bkh" /\ last.collapse) =>
        /\ last.outcome = "returned"
        /\ last.shown
        /\ Len(last.glyphs) = Cardinality({avg[i].YEAR : i \in 1..Len(avg)})

====
